---- MODULE Spec2Model ----
(***************************************************************************)
(* The consultation queue of discord-sensei-bot (src/src/main.rs and       *)
(* src/src/constants.rs): one SQLite table `queue`, one tokio Mutex around *)
(* the connection, and the command handlers queue, unqueue, when, list and *)
(* remove, each run as its own task.                                       *)
(*                                                                         *)
(* A row of the table is [discord_id, name, note, created].  A note is     *)
(* represented by its length in bytes (the handlers only store it and the  *)
(* list formatter only measures it); `created` is the millisecond clock    *)
(* value counted from a base instant, so that all values print with the    *)
(* same number of digits and compare as numbers.                           *)
(***************************************************************************)
EXTENDS Integers, Sequences, FiniteSets, TLC

VARIABLES
    table,          \* rows of `queue`, in rowid (insertion) order
    db_lock,        \* task holding the Mutex<Connection>, or NoTask
    data_readers,   \* tasks holding a read guard of ctx.data
    task,           \* per task: pc, cmd, author, args, reply
    fresh,          \* history: the table was empty when the database was opened
    log             \* history: the store operations of a fresh run, in order

vars == <<table, db_lock, data_readers, task, fresh, log>>

----------------------------------------------------------------------------
\* Bounds and input domains

MaxCalls == 3       \* store operations recorded in the log
MaxTime == 2        \* clock values 1..MaxTime

A == "100000000000000001"
B == "100000000000000002"
C == "100000000000000003"
Users == {A, B, C}
Tasks == {"t1", "t2"}
NoTask == "none"
Times == 1..MaxTime
InitNotes == {900}
\* note lengths for the list formatter: with 1955 a line of alice is 1995
\* bytes, with 1957 it is 1997 bytes
FormatNotes == {50, 900, 1955, 1957}
\* argument lists of `queue`: each argument is given by its length
QueueArgs == {<<>>, <<4, 895>>}
\* first argument of `remove`: a user id, nothing, or text that is no id
NoArg == "<no argument>"
BadArg == "<not an id>"
RemoveArgs == Users \cup {NoArg, BadArg}

Commands == {"queue", "unqueue", "when", "list", "remove"}

----------------------------------------------------------------------------
\* constants.rs

MSG_ERROR == "Sorry, there was a problem. Try DMing sensei."
MSG_QUEUE_ALREADY == "You have already queued"
MSG_REMOVE_QUEUE_SUCCESS == "You have been successfully removed form the queue"
MSG_NOT_IN_QUEUE == "Not in the queue!"
MSG_EMPTY_LIST == "No one is looking for consultation"
MSG_MISSING_DISCORD_ID == "Please provide a discord id"
MSG_INVALID_USER_ID == "Id is not valid UserId"
MSG_DISCORD_ID_NOT_EXIST == "discord_id does not exist"
DISCORD_MSG_LIMIT == 2000

\* the three formatted replies
FMT_QUEUED == "Queued! You are {} on the queue"
FMT_QUEUE_NUMBER == "Your queue number is: {}"
FMT_REMOVED == "Removed {}"
FMT_LISTING == "{} in a code block"

\* number of bytes of since_the_epoch.as_millis().to_string()
CreatedLen == 13

\* config.owner_id
OwnerId == A

\* msg.author.name
UserName(u) ==
    CASE u = A -> "alice"
      [] u = B -> "bob"
      [] OTHER -> "carol"

Row(id, name, note, created) ==
    [discord_id |-> id, name |-> name, note |-> note, created |-> created]

\* what a handler passes to say()
Reply(msg, num, who, rows) ==
    [msg |-> msg, num |-> num, who |-> who, rows |-> rows]
Text(msg) == Reply(msg, 0, "", <<>>)
NoReply == Text("")

----------------------------------------------------------------------------
\* The statements of constants.rs, as functions of the table

RECURSIVE SumSeq(_)
SumSeq(s) == IF s = <<>> THEN 0 ELSE Head(s) + SumSeq(Tail(s))

Indices(tbl, id) == {i \in 1..Len(tbl) : tbl[i].discord_id = id}

\* STMT_QUEUE_ENTRY_EXIST
StmtQueueEntryExist(tbl, id) == Cardinality(Indices(tbl, id))

\* the uniqueness constraint of the primary key discord_id
PrimaryKeyConflict(tbl, id) == Indices(tbl, id) # {}

\* STMT_QUEUE_UP: the new row gets the next rowid
StmtQueueUp(tbl, row) ==
    IF PrimaryKeyConflict(tbl, row.discord_id)
    THEN [err |-> TRUE, tbl |-> tbl, rows_affected |-> 0]
    ELSE [err |-> FALSE, tbl |-> Append(tbl, row), rows_affected |-> 1]

\* STMT_QUEUE_COUNT
StmtQueueCount(tbl) == Len(tbl)

\* a DELETE that also moves each later row up into the time of the row
\* before it
DeleteAndShift(tbl, id) ==
    IF Indices(tbl, id) = {} THEN [tbl |-> tbl, rows_affected |-> 0]
    ELSE LET i == CHOOSE i \in Indices(tbl, id) : TRUE
         IN  [tbl |-> [j \in 1..(Len(tbl) - 1) |->
                         IF j < i THEN tbl[j]
                         ELSE [tbl[j + 1] EXCEPT !.created = tbl[j].created]],
              rows_affected |-> 1]

\* DELETE FROM queue WHERE discord_id = (?)
DeleteWhereId(tbl, id) ==
    [tbl |-> SelectSeq(tbl, LAMBDA r : r.discord_id # id),
     rows_affected |-> Cardinality(Indices(tbl, id))]

\* a DELETE that lost its WHERE clause
DeleteAll(tbl, id) == [tbl |-> <<>>, rows_affected |-> Len(tbl)]

\* STMT_UNQUEUE
StmtUnqueue(tbl, id) == DeleteWhereId(tbl, id)

\* STMT_REMOVE_ENTRY
StmtRemoveEntry(tbl, id) == DeleteWhereId(tbl, id)

\* STMT_QUEUE_NUMBER: the scalar subquery yields the `created` of the first
\* row of the requester (NULL without one, and then no row compares <=)
StmtQueueNumber(tbl, id) ==
    IF Indices(tbl, id) = {} THEN 0
    ELSE LET own == tbl[CHOOSE i \in Indices(tbl, id) :
                          \A j \in Indices(tbl, id) : i <= j].created
         IN  Cardinality({i \in 1..Len(tbl) : tbl[i].created <= own})

\* STMT_LIST: every row, ORDER BY created DESC.  SQL leaves the order of
\* rows with equal `created` open, so the statement has a set of results.
Orderings(n) ==
    {p \in [1..n -> 1..n] : \A i, j \in 1..n : i # j => p[i] # p[j]}

StmtList(tbl) ==
    {[i \in 1..Len(tbl) |-> tbl[p[i]]] : p \in
        {q \in Orderings(Len(tbl)) :
            \A i, j \in 1..Len(tbl) :
                i < j => tbl[q[i]].created >= tbl[q[j]].created}}

----------------------------------------------------------------------------
\* Helpers of main.rs

is_user_queued(discord_id, tbl) == StmtQueueEntryExist(tbl, discord_id) > 0

\* the arguments joined by single spaces
args_to_string(args) == SumSeq(args) + (Len(args) - 1)

\* an owner check that lets everyone through
is_owner_anyone(author) == TRUE

is_owner(author) == author = OwnerId

\* one rendered line of list: id \t created \t name \t note \n
LineLen(entry) ==
    Len(entry.discord_id) + 1 + CreatedLen + 1 + Len(entry.name) + 1
        + entry.note + 1

\* The loop of list over `entries`: `buffer` is cleared only when its line
\* was moved to `reply`, and the loop stops at the first line that does not
\* fit.  Gives the entries whose lines are in `reply`, and reply.len().
RECURSIVE ListLoop(_, _, _)
ListLoop(entries, shown, reply_len) ==
    IF entries = <<>> THEN [shown |-> shown, reply_len |-> reply_len]
    ELSE IF reply_len + LineLen(Head(entries)) < DISCORD_MSG_LIMIT
         THEN ListLoop(Tail(entries), Append(shown, Head(entries)),
                       reply_len + LineLen(Head(entries)))
         ELSE [shown |-> shown, reply_len |-> reply_len]

\* the number of bytes of the code fence that opens and closes the reply
FenceLen == 3

\* The reply of list for a result that is not empty: the opening fence, the
\* lines of the loop, the closing fence.  `num` is its length in bytes.
Listing(entries) ==
    LET loop == ListLoop(entries, <<>>, FenceLen)
    IN  Reply(FMT_LISTING, loop.reply_len + FenceLen, "", loop.shown)

----------------------------------------------------------------------------
\* The store phase of each handler: from taking the mutex to the first
\* say().  Result: the table afterwards, the reply, and whether an unwrap()
\* panicked (the task then ends with no reply).

Outcome(tbl, reply) == [tbl |-> tbl, reply |-> reply, panicked |-> FALSE]
Panic(tbl) == [tbl |-> tbl, reply |-> NoReply, panicked |-> TRUE]

queue(tbl, author, args, now) ==
    IF ~is_user_queued(author, tbl)
    THEN Outcome(tbl, Text(MSG_QUEUE_ALREADY))
    ELSE LET note == IF Len(args) > 0 THEN args_to_string(args) ELSE 0
             ins == StmtQueueUp(tbl, Row(author, UserName(author), note, now))
         IN  IF ins.err THEN Panic(tbl)
             ELSE IF ins.rows_affected = 0
                  THEN Outcome(ins.tbl, Text(MSG_ERROR))
                  ELSE Outcome(ins.tbl,
                         Reply(FMT_QUEUED, StmtQueueCount(ins.tbl), "", <<>>))

\* unqueue with the test of rows_affected written `>= 0`
unqueue_always_success(tbl, author) ==
    LET del == StmtUnqueue(tbl, author)
    IN  IF del.rows_affected >= 0
        THEN Outcome(del.tbl, Text(MSG_REMOVE_QUEUE_SUCCESS))
        ELSE Outcome(del.tbl, Text(MSG_NOT_IN_QUEUE))

unqueue(tbl, author) ==
    LET del == StmtUnqueue(tbl, author)
    IN  IF del.rows_affected > 0
        THEN Outcome(del.tbl, Text(MSG_REMOVE_QUEUE_SUCCESS))
        ELSE Outcome(del.tbl, Text(MSG_NOT_IN_QUEUE))

\* when with STMT_UNQUEUE executed where STMT_QUEUE_NUMBER is meant
when_deletes(tbl, author) ==
    IF ~is_user_queued(author, tbl)
    THEN Outcome(tbl, Text(MSG_NOT_IN_QUEUE))
    ELSE Outcome(StmtUnqueue(tbl, author).tbl,
                 Reply(FMT_QUEUE_NUMBER, StmtQueueNumber(tbl, author),
                       "", <<>>))

when(tbl, author) ==
    IF ~is_user_queued(author, tbl)
    THEN Outcome(tbl, Text(MSG_NOT_IN_QUEUE))
    ELSE Outcome(tbl, Reply(FMT_QUEUE_NUMBER, StmtQueueNumber(tbl, author),
                            "", <<>>))

\* list without its test for an empty result
list_no_empty_test(tbl, entries) ==
    Outcome(tbl, Listing(entries))

\* `entries` is the result of STMT_LIST
list(tbl, entries) ==
    IF Len(entries) = 0
    THEN Outcome(tbl, Text(MSG_EMPTY_LIST))
    ELSE Outcome(tbl, Listing(entries))

remove(tbl, discord_id) ==
    LET del == StmtRemoveEntry(tbl, discord_id)
    IN  IF del.rows_affected = 0
        THEN Outcome(del.tbl, Text(MSG_DISCORD_ID_NOT_EXIST))
        ELSE Outcome(del.tbl, Reply(FMT_REMOVED, 0, discord_id, <<>>))

----------------------------------------------------------------------------
\* State

Idle == [pc |-> "idle", cmd |-> "", author |-> "", args |-> <<>>,
         reply |-> NoReply]

\* an entry of the log: the command, whose row it is about (the author, or
\* the argument of remove) and how it ended
Call(cmd, who, out) ==
    [cmd |-> cmd, who |-> who, reply |-> out.reply, panicked |-> out.panicked]

\* The database file outlives the process: Connection::open finds whatever
\* rows earlier runs left.  Rows are in rowid order; discord_id is the
\* primary key; `created` was taken from the clock at insertion.
RowSetOf(notes) ==
    {Row(u, UserName(u), n, c) : u \in Users, n \in notes, c \in Times}

TablesOf(notes) ==
    {t \in UNION {[1..n -> RowSetOf(notes)] : n \in 0..Cardinality(Users)} :
        /\ \A i, j \in 1..Len(t) : i # j => t[i].discord_id # t[j].discord_id
        /\ \A i, j \in 1..Len(t) : i < j => t[i].created <= t[j].created}

RowSet == RowSetOf(InitNotes)

InitTables == TablesOf(InitNotes)

InitRest ==
    /\ db_lock = NoTask
    /\ data_readers = {}
    /\ task = [t \in Tasks |-> Idle]
    /\ log = <<>>

\* the bot is started on a database that may hold rows
Init ==
    /\ table \in InitTables
    /\ fresh = FALSE
    /\ InitRest

\* the bot is started on a database whose notes are short, long, and of
\* the lengths that bring one line of list to the limit
InitFormat ==
    /\ table \in TablesOf(FormatNotes)
    /\ fresh = FALSE
    /\ InitRest

\* the bot is started on an empty table, and its calls are recorded
InitFresh ==
    /\ table = <<>>
    /\ fresh = TRUE
    /\ InitRest

InFlight == {t \in Tasks : task[t].pc # "idle"}

----------------------------------------------------------------------------
\* Steps of a command task.  A task is suspended only at an .await: taking
\* the read guard of ctx.data, taking the mutex, and say().

\* the framework starts the handler of one of the commands cmds
DispatchOf(t, cmds) ==
    /\ task[t].pc = "idle"
    /\ fresh => Len(log) + Cardinality(InFlight) < MaxCalls
    /\ \E cmd \in cmds, author \in Users :
        \E args \in (IF cmd = "queue" THEN QueueArgs
                     ELSE IF cmd = "remove" THEN {<<a>> : a \in RemoveArgs}
                     ELSE {<<>>}) :
            task' = [task EXCEPT ![t] =
                        [pc |-> IF cmd \in {"list", "remove"}
                                THEN "is_owner" ELSE "read_data",
                         cmd |-> cmd, author |-> author, args |-> args,
                         reply |-> NoReply]]
    /\ UNCHANGED <<table, db_lock, data_readers, fresh, log>>

Dispatch(t) == DispatchOf(t, Commands)

\* list, remove: is_owner() takes and drops its own read guard; for anyone
\* but the owner the handler returns Ok(()) at once.  remove then parses
\* its argument.
CheckOwner(t) ==
    /\ task[t].pc = "is_owner"
    /\ task' = [task EXCEPT ![t] =
                  IF ~is_owner(task[t].author) THEN [@ EXCEPT !.pc = "returned"]
                  ELSE IF task[t].cmd = "remove" /\ task[t].args[1] = NoArg
                  THEN [@ EXCEPT !.pc = "say",
                                 !.reply = Text(MSG_MISSING_DISCORD_ID)]
                  ELSE IF task[t].cmd = "remove" /\ task[t].args[1] = BadArg
                  THEN [@ EXCEPT !.pc = "say",
                                 !.reply = Text(MSG_INVALID_USER_ID)]
                  ELSE [@ EXCEPT !.pc = "read_data"]]
    /\ UNCHANGED <<table, db_lock, data_readers, fresh, log>>

\* let data = ctx.data.read().await
ReadData(t) ==
    /\ task[t].pc = "read_data"
    /\ data_readers' = data_readers \cup {t}
    /\ task' = [task EXCEPT ![t].pc = "lock"]
    /\ UNCHANGED <<table, db_lock, fresh, log>>

\* The handler body between lock().await and its first say(), for the
\* clock value `now` and the result `entries` of STMT_LIST.
Body(tbl, call, now, entries) ==
    CASE call.cmd = "queue" -> queue(tbl, call.author, call.args, now)
      [] call.cmd = "unqueue" -> unqueue(tbl, call.author)
      [] call.cmd = "when" -> when(tbl, call.author)
      [] call.cmd = "list" -> list(tbl, entries)
      [] OTHER -> remove(tbl, call.args[1])

Subject(call) == IF call.cmd = "remove" THEN call.args[1] ELSE call.author

\* a lock().await that completes at once
MutexAlwaysFree == TRUE

\* lock().await completes only when no task holds the guard
MutexFree == db_lock = NoTask

\* a handler that calls lock().await again with its guard alive
LockDb_again(t) ==
    /\ task[t].pc = "lock"
    /\ MutexFree
    /\ db_lock' = t
    /\ UNCHANGED <<table, data_readers, task, fresh, log>>

\* let db = ...lock().await, and the statements up to say().  The guards
\* `db` and `data` live to the end of the function: they are held during
\* say(), and dropped by the unwinding when an unwrap() panics (a tokio
\* Mutex is not poisoned by that).
LockDb(t) ==
    /\ task[t].pc = "lock"
    /\ MutexFree
    /\ \E now \in Times, entries \in StmtList(table) :
        LET out == Body(table, task[t], now, entries)
        IN  /\ table' = out.tbl
            /\ log' = IF fresh
                      THEN Append(log, Call(task[t].cmd, Subject(task[t]), out))
                      ELSE log
            /\ IF out.panicked
               THEN /\ db_lock' = NoTask
                    /\ data_readers' = data_readers \ {t}
                    /\ task' = [task EXCEPT ![t].pc = "panicked"]
               ELSE /\ db_lock' = t
                    /\ data_readers' = data_readers
                    /\ task' = [task EXCEPT ![t].pc = "say",
                                            ![t].reply = out.reply]
    /\ UNCHANGED fresh

\* a task that ends and leaves the guard of the mutex behind
TaskEnd_keeps_guard(t) ==
    /\ task[t].pc \in {"say", "returned", "panicked"}
    /\ data_readers' = data_readers \ {t}
    /\ task' = [task EXCEPT ![t] = Idle]
    /\ UNCHANGED <<table, db_lock, fresh, log>>

\* The task of a handler ends: say() completes, the handler returns Ok(())
\* and its guards are dropped; or the handler returned without a say(); or
\* the runtime disposes of a task whose handler panicked (its guards went
\* with the unwinding).
TaskEnd(t) ==
    /\ task[t].pc \in {"say", "returned", "panicked"}
    /\ db_lock' = IF db_lock = t THEN NoTask ELSE db_lock
    /\ data_readers' = data_readers \ {t}
    /\ task' = [task EXCEPT ![t] = Idle]
    /\ UNCHANGED <<table, fresh, log>>

Next ==
    \E t \in Tasks :
        \/ Dispatch(t)
        \/ CheckOwner(t)
        \/ ReadData(t)
        \/ LockDb(t)
        \/ TaskEnd(t)

Spec == Init /\ [][Next]_vars

SpecFresh == InitFresh /\ [][Next]_vars

\* The scheduling of the handlers.  Each handler is a tokio task that the
\* runtime keeps polling: a step that stays possible is taken.  The waiters
\* of a tokio Mutex are served first in, first out, so a handler that waits
\* in lock().await gets the guard although other handlers take and drop it
\* in between.  Nothing is assumed about new commands arriving.
Fairness ==
    \A t \in Tasks :
        /\ WF_vars(CheckOwner(t))
        /\ WF_vars(ReadData(t))
        /\ SF_vars(LockDb(t))
        /\ WF_vars(TaskEnd(t))

\* the bot under that scheduling, started on a database of at most one row
InitLive ==
    /\ table \in {tbl \in InitTables : Len(tbl) <= 1}
    /\ fresh = FALSE
    /\ InitRest

SpecLive == InitLive /\ [][Next]_vars /\ Fairness

\* the bot started on an empty table or on a database that holds rows
InitCount == Init \/ InitFresh

SpecCount == InitCount /\ [][Next]_vars

\* the list command alone, on tables with notes of many lengths
NextFormat ==
    \E t \in Tasks :
        \/ DispatchOf(t, {"list"})
        \/ CheckOwner(t)
        \/ ReadData(t)
        \/ LockDb(t)
        \/ TaskEnd(t)

SpecFormat == InitFormat /\ [][NextFormat]_vars

----------------------------------------------------------------------------
\* Vocabulary of the properties

\* task t runs the statements of its handler in this step
Runs(t, cmd) ==
    /\ task[t].pc = "lock"
    /\ task[t].cmd = cmd
    /\ task'[t].pc # "lock"

\* task t is inside say() with the reply of command cmd
Says(t, cmd) == task[t].pc = "say" /\ task[t].cmd = cmd

\* the reply of `when` to requester id on table tbl
PositionOf(tbl, id) == when(tbl, id).reply

Position(n) == Reply(FMT_QUEUE_NUMBER, n, "", <<>>)

\* tbl without its i-th row
Without(tbl, i) ==
    [j \in 1..(Len(tbl) - 1) |-> IF j < i THEN tbl[j] ELSE tbl[j + 1]]

Succeeded(cmd, msg) ==
    Cardinality({n \in 1..Len(log) :
        log[n].cmd = cmd /\ ~log[n].panicked /\ log[n].reply.msg = msg})

----------------------------------------------------------------------------
\* C1: queue from a requester who already has an entry answers "already
\* queued", inserts nothing and leaves exactly one entry of that requester.
C1_EnqueueQueuedIsRejected ==
    [][\A t \in Tasks :
        (Runs(t, "queue") /\ is_user_queued(task[t].author, table)) =>
            /\ task'[t].pc = "say"
            /\ task'[t].reply = Text(MSG_QUEUE_ALREADY)
            /\ table' = table
            /\ Cardinality(Indices(table', task[t].author)) = 1]_vars

\* C2: queue from a requester without an entry appends exactly one row with
\* the author's id and name, the note and the clock value, and answers with
\* the number of rows after the insertion.
C2_EnqueueInsertsAndReportsCount ==
    [][\A t \in Tasks :
        (Runs(t, "queue") /\ ~is_user_queued(task[t].author, table)) =>
            /\ \E now \in Times :
                table' = Append(table,
                    Row(task[t].author, UserName(task[t].author),
                        IF task[t].args = <<>> THEN 0
                        ELSE args_to_string(task[t].args), now))
            /\ task'[t].pc = "say"
            /\ task'[t].reply = Reply(FMT_QUEUED, Len(table'), "", <<>>)]_vars

\* task t runs command cmd in this step and answers it with msg
SucceedsNow(t, cmd, msg) ==
    /\ Runs(t, cmd)
    /\ task'[t].pc = "say"
    /\ task'[t].reply.msg = msg

\* the successful queue commands of this step
Enqueued ==
    Cardinality({t \in Tasks : SucceedsNow(t, "queue", FMT_QUEUED)})

\* the successful unqueue and remove commands of this step
Removed ==
    Cardinality({t \in Tasks :
        \/ SucceedsNow(t, "unqueue", MSG_REMOVE_QUEUE_SUCCESS)
        \/ SucceedsNow(t, "remove", FMT_REMOVED)})

C5_PositionIsEnqueueOrder ==
    fresh =>
        \A n \in 1..Len(log) :
            ( /\ log[n].cmd = "when"
              /\ \A m \in 1..(n - 1) : log[m].cmd = "queue"
              /\ \A m, l \in 1..(n - 1) : m # l => log[m].who # log[l].who ) =>
                \A k \in 1..(n - 1) :
                    log[k].who = log[n].who =>
                        ~log[n].panicked /\ log[n].reply = Position(k)

\* C6: unqueue of a queued requester leaves the position of every entry
\* ahead of it unchanged, lowers the position of every entry behind it by
\* one, and `when` of the requester then answers "not in the queue"; with
\* three entries and the middle one withdrawn the others are at 1 and 2.
C6_WithdrawShiftsLaterEntries ==
    [][\A t \in Tasks :
        (Runs(t, "unqueue") /\ is_user_queued(task[t].author, table)) =>
            \E i \in Indices(table, task[t].author) :
                /\ PositionOf(table', task[t].author) = Text(MSG_NOT_IN_QUEUE)
                /\ \A j \in 1..(i - 1) :
                    PositionOf(table', table[j].discord_id)
                        = PositionOf(table, table[j].discord_id)
                /\ \A j \in (i + 1)..Len(table) :
                    PositionOf(table', table[j].discord_id)
                        = Position(PositionOf(table, table[j].discord_id).num - 1)
                /\ (Len(table) = 3 /\ i = 2) =>
                    /\ PositionOf(table', table[1].discord_id) = Position(1)
                    /\ PositionOf(table', table[3].discord_id) = Position(2)]_vars

\* C7: `when` answers to the requester of the i-th row (in insertion order)
\* the position i, so that distinct requesters get distinct positions 1..n,
\* also when rows carry the same `created`.
C7_PositionsAreInsertionRanks ==
    \A t \in Tasks :
        (Says(t, "when") /\ task[t].reply.msg = FMT_QUEUE_NUMBER) =>
            task[t].reply.num \in Indices(table, task[t].author)

\* C8: list shows the entries oldest first: ascending `created`, starting
\* with an entry no other entry of the table is older than.
C8_ListIsOldestFirst ==
    \A t \in Tasks :
        (Says(t, "list") /\ task[t].reply.msg = FMT_LISTING) =>
            LET rows == task[t].reply.rows
            IN  /\ \A i, j \in 1..Len(rows) :
                    i < j => rows[i].created <= rows[j].created
                /\ Len(rows) > 0 =>
                    \A k \in 1..Len(table) :
                        rows[1].created <= table[k].created

\* C9: list on an empty table ends in the reply "no one is looking for
\* consultation", with no panic and no error reply, and the table stays empty.
C9_ListOfEmptyStore ==
    [][\A t \in Tasks :
        (Runs(t, "list") /\ table = <<>>) =>
            /\ task'[t].pc = "say"
            /\ task'[t].reply = Text(MSG_EMPTY_LIST)
            /\ table' = <<>>]_vars

\* the owner's list is answering on an empty table
C9_Witness ==
    \E t \in Tasks :
        /\ Says(t, "list")
        /\ table = <<>>
        /\ task[t].reply = Text(MSG_EMPTY_LIST)

\* C10: remove of an id without a row answers "discord_id does not exist"
\* and leaves the table as it is; remove of an id with a row takes exactly
\* that row out and leaves the other rows and their order as they are.
C10_AdminRemoveFrame ==
    [][\A t \in Tasks :
        Runs(t, "remove") =>
            LET x == task[t].args[1]
            IN  IF Indices(table, x) = {}
                THEN /\ table' = table
                     /\ task'[t].pc = "say"
                     /\ task'[t].reply = Text(MSG_DISCORD_ID_NOT_EXIST)
                ELSE /\ \E i \in Indices(table, x) : table' = Without(table, i)
                     /\ task'[t].pc = "say"
                     /\ task'[t].reply = Reply(FMT_REMOVED, 0, x, <<>>)]_vars

\* the owner's remove took one row out of a table of three or more
C10_Witness ==
    \E t \in Tasks :
        /\ Says(t, "remove")
        /\ task[t].reply.msg = FMT_REMOVED
        /\ Indices(table, task[t].reply.who) = {}
        /\ Len(table) >= 2

\* C11: unqueue of a queued requester deletes the row and answers success;
\* unqueue of a requester without a row answers "not in the queue" and
\* leaves the table as it is.  A requester without a row stays without one
\* until a queue command of their own, so after a successful unqueue every
\* further unqueue takes the second branch.
C11_WithdrawIsIdempotent ==
    [][/\ \A t \in Tasks :
            Runs(t, "unqueue") =>
                LET r == task[t].author
                IN  IF Indices(table, r) # {}
                    THEN /\ \E i \in Indices(table, r) :
                                table' = Without(table, i)
                         /\ Indices(table', r) = {}
                         /\ task'[t].pc = "say"
                         /\ task'[t].reply = Text(MSG_REMOVE_QUEUE_SUCCESS)
                    ELSE /\ table' = table
                         /\ task'[t].pc = "say"
                         /\ task'[t].reply = Text(MSG_NOT_IN_QUEUE)
       /\ \A r \in Users :
            ( /\ Indices(table, r) = {}
              /\ ~\E t \in Tasks : Runs(t, "queue") /\ task[t].author = r ) =>
                Indices(table', r) = {}]_vars

\* a requester's unqueue has succeeded and is answering while a second
\* unqueue of the same requester waits for the mutex
C11_Witness ==
    \E t, u \in Tasks :
        /\ Says(t, "unqueue")
        /\ task[t].reply = Text(MSG_REMOVE_QUEUE_SUCCESS)
        /\ task[u].pc = "lock"
        /\ task[u].cmd = "unqueue"
        /\ task[u].author = task[t].author
        /\ Len(table) >= 1

\* C12: when and list leave the table as it is on every path, so that the
\* reply of `when` to a requester is the same before and after.
C12_ReadsDoNotMutate ==
    [][\A t \in Tasks :
        (Runs(t, "when") \/ Runs(t, "list")) =>
            /\ table' = table
            /\ \A r \in Users : PositionOf(table', r) = PositionOf(table, r)]_vars

\* `when` is answering a position on a table of two or more rows
C12_Witness ==
    \E t \in Tasks :
        /\ Says(t, "when")
        /\ task[t].reply.msg = FMT_QUEUE_NUMBER
        /\ Len(table) >= 2
        /\ is_user_queued(task[t].author, table)

\* the bytes of the lines of the first m of entries
LinesLen(entries, m) == SumSeq([i \in 1..m |-> LineLen(entries[i])])

\* the first m lines fit: the block made of them, with its opening and its
\* closing fence, is no longer than the maximum length
FitsLimit(entries, m) ==
    FenceLen + LinesLen(entries, m) + FenceLen <= DISCORD_MSG_LIMIT

\* C13: the reply of list is made of the complete lines of the first k
\* entries of the ordered result and of nothing else, where k is the
\* largest number of leading lines that fit: the first entry whose line
\* does not fit and every entry after it are left out.
C13_ListingIsLongestFittingPrefix ==
    \A t \in Tasks :
        (Says(t, "list") /\ task[t].reply.msg = FMT_LISTING) =>
            \E entries \in StmtList(table) :
                LET rows == task[t].reply.rows
                    k == Len(rows)
                IN  /\ k <= Len(entries)
                    /\ rows = SubSeq(entries, 1, k)
                    /\ FitsLimit(entries, k)
                    /\ k < Len(entries) => ~FitsLimit(entries, k + 1)
                    /\ task[t].reply.num = FenceLen + LinesLen(rows, k) + FenceLen

\* C14: the reply of list, fences included, is at most DISCORD_MSG_LIMIT
\* bytes long.
C14_ListingWithinLimit ==
    \A t \in Tasks :
        (Says(t, "list") /\ task[t].reply.msg = FMT_LISTING) =>
            task[t].reply.num <= DISCORD_MSG_LIMIT

\* task t has passed lock().await of its handler and has not ended: it
\* has run statements on the store and its guard `db` is alive
PastLock(t) ==
    /\ task[t].pc = "say"
    /\ task[t].reply.msg \notin {MSG_MISSING_DISCORD_ID, MSG_INVALID_USER_ID}

\* C15: at most one handler is at the store at any instant: a handler runs
\* its statements only in a step that starts with the mutex free and that
\* all other handlers passed before or after, and every handler that has
\* run statements and has not ended is the one holder of the mutex.
C15_StoreAccessUnderMutex ==
    [][/\ \A t \in Tasks :
            /\ (\E cmd \in Commands : Runs(t, cmd)) =>
                  /\ db_lock = NoTask
                  /\ \A u \in Tasks \ {t} :
                        ~PastLock(u) /\ task'[u] = task[u]
                  /\ db_lock' \in {t, NoTask}
            /\ PastLock(t)' => db_lock' = t
       /\ table' # table =>
            \E t \in Tasks, cmd \in Commands : Runs(t, cmd)]_vars

\* one handler holds the mutex in say() while another waits in lock().await
C15_Witness ==
    \E t, u \in Tasks :
        /\ t # u
        /\ PastLock(t)
        /\ db_lock = t
        /\ task[u].pc = "lock"

\* C16: the mutex is held only by a handler in flight: a handler that has
\* ended, returned without a reply, or panicked in a storage fault does
\* not hold it, and with no handler in flight the mutex is free.
C16_MutexReleasedOnEveryExit ==
    /\ \A t \in Tasks :
          task[t].pc \in {"idle", "returned", "panicked"} => db_lock # t
    /\ InFlight = {} => db_lock = NoTask
    /\ db_lock # NoTask => db_lock \in InFlight

\* a handler panicked in a storage fault, and the mutex is free
C16_Witness ==
    \E t \in Tasks : task[t].pc = "panicked" /\ db_lock = NoTask

\* C17: a handler that is sending its reply does not hold the mutex.
C17_NoMutexAcrossSay ==
    \A t \in Tasks : task[t].pc = "say" => db_lock # t

\* the rows of tbl whose requesters are in ids, in stored order
RowsOf(tbl, ids) == SelectSeq(tbl, LAMBDA r : r.discord_id \in ids)

Queued(tbl) == {tbl[i].discord_id : i \in 1..Len(tbl)}

\* requester a is ahead of requester b: a's queue number is the smaller
Ahead(tbl, a, b) == PositionOf(tbl, a).num < PositionOf(tbl, b).num

\* C18: the entries that stay across a step keep their fields and their
\* stored order, and of two requesters that stay queued the one ahead
\* before the step is ahead after it.
C18_NoReorderInPlace ==
    [][LET stay == Queued(table) \cap Queued(table')
       IN  /\ RowsOf(table', stay) = RowsOf(table, stay)
           /\ \A a, b \in stay :
                 Ahead(table, a, b) => Ahead(table', a, b)]_vars

\* a withdrawal has deleted one entry and two requesters stayed queued,
\* one ahead of the other
C18_Witness ==
    \E t \in Tasks :
        /\ Says(t, "unqueue")
        /\ task[t].reply.msg = MSG_REMOVE_QUEUE_SUCCESS
        /\ \E a, b \in Queued(table) : Ahead(table, a, b)

\* C19: list or remove from anyone but the owner stops at the owner check:
\* it never waits for or holds the mutex, never runs a statement and has
\* no reply.
C19_OwnerOnlyCommands ==
    \A t \in Tasks :
        (task[t].cmd \in {"list", "remove"} /\ task[t].author # OwnerId) =>
            /\ task[t].pc \in {"is_owner", "returned"}
            /\ db_lock # t
            /\ task[t].reply = NoReply

\* list or remove from another requester has returned at the owner check
C19_Witness ==
    \E t, u \in Tasks :
        /\ task[t].cmd = "remove" /\ task[t].author # OwnerId
        /\ task[t].pc = "returned"
        /\ task[u].cmd = "list" /\ task[u].author # OwnerId
        /\ task[u].pc = "returned"

\* C20: the handlers cannot deadlock: the guard of the mutex is taken only
\* by a handler that holds its read guard of the shared data, its holder
\* waits for no lock, and under the scheduling of the runtime every
\* handler that waits in lock().await gets past it and ends.
C20_LockedHandlersComplete ==
    /\ [](\A t \in Tasks :
            db_lock = t => t \in data_readers /\ task[t].pc = "say")
    /\ \A t \in Tasks :
          (task[t].pc = "lock") ~> (db_lock = t \/ task[t].pc = "panicked")
    /\ \A t \in Tasks : (task[t].pc = "lock") ~> (task[t].pc = "idle")

\* a handler waits in lock().await while the handler of another command
\* holds the mutex in its say()
C20_Witness ==
    \E t, u \in Tasks :
        /\ task[t].pc = "lock" /\ task[t].cmd = "when"
        /\ t \in data_readers
        /\ db_lock = u /\ task[u].cmd = "queue"

====
